---- MODULE Spec2Model ----
(***************************************************************************)
(* license-retriever: LicenseRetriever::async_from_config and the fetch    *)
(* chain below it (src/src/lib.rs).  One run resolves the license texts of *)
(* every package of the cargo metadata, concurrently, behind the global    *)
(* SEMAPHORE, then applies license_copying_crates and reports the packages *)
(* left without a license.                                                 *)
(***************************************************************************)
EXTENDS Integers, Sequences, FiniteSets, TLC

\* ------------------------------------------------------------------ bounds
\* number of packages cargo metadata returns
NumPackages == 2
\* longest anchor list of a listing page / hosting page the server answers with
MaxAnchors == 2
\* value of the MAX_GET_REQS environment variable (permits of SEMAPHORE)
MaxGetReqs == 2
\* how many license files may disappear between the two GETs of one fetch
MaxVanished == 1
\* number of packages in the runs that look at chains of copy rules
NumCopyPackages == 3

\* "latest" in the listing URL, in place of a version number (lib.rs:326)
LATEST == 0

Names == {"a", "b"}
Repositories == {"none", "github"}

None == <<>>
Some(x) == <<x>>

\* a HashMap without entries
EmptyMap == [n \in {} |-> <<>>]

\* ------------------------------------------------------------ URLs, texts
\* A URL is a record; a license text is the URL it came from plus what the
\* body was.  Literal override texts share the shape.
Url(host, name, ver, file) == [host |-> host, name |-> name, ver |-> ver, file |-> file]
Text(url, body) == [host |-> url.host, name |-> url.name, ver |-> url.ver,
                    file |-> url.file, body |-> body]
Literal(name, k) == [host |-> "literal", name |-> name, ver |-> LATEST,
                     file |-> k, body |-> "plain"]
RawUrl(name, file) == Url("raw.githubusercontent.com", name, LATEST, file)

\* DOCS_RS_REGEX: ^https?://docs\.rs/crate/(.*?)/(.*?)/source
DOCS_RS_REGEX(url) == url.host = "docs.rs"
\* GITHUB_HOME_PAGE_REGEX on package.repository (absent, or parsed as a URL)
GITHUB_HOME_PAGE_REGEX(repository) == repository = "github"

\* hrefs of the anchors of a docs.rs source listing
Hrefs == {"./LICENSE-MIT", "./licence.txt", "./src/", "COPYING-LICENSE"}
\* inner texts of the file-row anchors of a GitHub home page
InnerTexts == {"LICENSE", "README.md", "https://github.com/o/r/blob/main/LICENSE"}

\* a.to_lowercase().contains("license") || a.to_lowercase().contains("licence")
IsLicenseName(a) ==
    a \in {"./LICENSE-MIT", "./licence.txt", "COPYING-LICENSE", "LICENSE",
           "https://github.com/o/r/blob/main/LICENSE"}

\* a.strip_prefix("./"): None when the href does not start with "./"
strip_prefix(a) ==
    CASE a = "./LICENSE-MIT" -> Some("LICENSE-MIT")
      [] a = "./licence.txt" -> Some("licence.txt")
      [] a = "./src/" -> Some("src/")
      [] OTHER -> None

\* Url::parse(GITHUB_FILE_REGEX.replace(a, raw...)).ok(): the replacement is
\* applied to the anchor's inner text; a text that is no absolute URL does
\* not parse.
GithubRawUrl(name, a) ==
    IF a = "https://github.com/o/r/blob/main/LICENSE"
    THEN Some(Url("raw.githubusercontent.com", name, LATEST, "o/r/main/LICENSE"))
    ELSE None

RECURSIVE Flatten(_)
\* into_iter().flatten().collect() over a Vec<Option<String>> (or of Options of URLs)
Flatten(opts) ==
    IF opts = <<>> THEN <<>> ELSE Head(opts) \o Flatten(Tail(opts))

\* sequences without repetition over S, of length at most n
RECURSIVE SeqsUpTo(_, _)
SeqsUpTo(S, n) ==
    IF n = 0 THEN {<<>>}
    ELSE LET shorter == SeqsUpTo(S, n - 1)
         IN shorter \cup {Append(s, x) : s \in {t \in shorter : Len(t) = n - 1},
                                          x \in S}

NoRepeat(s) == \A i, j \in 1..Len(s) : i # j => s[i] # s[j]
ListingPages == {s \in SeqsUpTo(Hrefs, MaxAnchors) : NoRepeat(s)}
HostingPages == {s \in SeqsUpTo(InnerTexts, MaxAnchors) : NoRepeat(s)}

\* ------------------------------------------------------------------ state
VARIABLES
    packages,    \* meta.packages: Vec<Package>
    resolve,     \* meta.resolve: Option<Resolve>, the dependency graph
    config,      \* the Config the run was given
    permits,     \* free permits of SEMAPHORE
    task,        \* per package: the get_license_texts_from_package future
    fetches,     \* per package: the get_license_text_from_url futures it joins
    consulted,   \* per package: the sources that yielded a result, in order
    requested,   \* per package: the kinds of request sent on its behalf
    completed,   \* package indices in the order their futures completed
    phase,       \* position of async_from_config
    licenses,    \* Vec<(Package, Cow<[String]>)> of async_from_config
    pending,     \* keys of license_copying_crates not yet iterated
    reported,    \* the packages named in the "No licenses found for" message
    outcome,     \* what async_from_config returned
    vanished     \* license files that disappeared between their two GETs

vars == <<packages, resolve, config, permits, task, fetches, consulted, requested,
          completed, phase, licenses, pending, reported, outcome, vanished>>

\* the indices of meta.packages
Pkgs == DOMAIN packages

Running == [kind |-> "running", tag |-> "", arg |-> ""]
Ok == [kind |-> "ok", tag |-> "", arg |-> ""]
Err(tag, arg) == [kind |-> "err", tag |-> tag, arg |-> arg]
Panic(msg) == [kind |-> "panic", tag |-> "No licenses found", arg |-> msg]

\* ------------------------------------------------ get_license_text_from_url
\* what the server holds at a URL: docs.rs renders a file inside a <code>
\* element of an HTML page, the other hosts serve the file as it is
ServerBody(url) == IF url.host = "docs.rs" THEN "html_code" ELSE "plain"

\* lib.rs:303-315: on a docs.rs source URL whose body parses and has a <code>
\* element the inner text of the first one is returned, else the body
ExtractText(url, body) ==
    IF DOCS_RS_REGEX(url) /\ body = "html_code"
    THEN Text(url, "code_inner_text")
    ELSE Text(url, body)

NewFetch(url) == [url |-> url, pc |-> "acquire", out |-> None, nth |-> 0]

\* ------------------------------- get_license_texts_from_crates_io_package
ListUrl(package, use_latest) ==
    Url("docs.rs", package.name,
        IF use_latest THEN LATEST ELSE package.version, "")

\* lib.rs:343-350: hrefs naming a license, "./" stripped, joined to list_url
CratesIoLicenseUrls(list_url, page) ==
    Flatten([i \in 1..Len(page) |->
        IF IsLicenseName(page[i])
        THEN LET s == strip_prefix(page[i])
             IN IF s = None THEN None
                ELSE Some([list_url EXCEPT !.file = s[1]])
        ELSE None])

\* ----------------------------------- get_license_texts_from_github_repo
\* lib.rs:377-379: query_selector returns None only for a selector that does
\* not parse; for a page without matching anchors it is an empty iterator
query_selector(page) == Some(page)

\* lib.rs:380-390
GithubLicenseUrls(name, page) ==
    Flatten([i \in 1..Len(page) |->
        IF IsLicenseName(page[i]) THEN GithubRawUrl(name, page[i]) ELSE None])

\* ---------------------------------------- get_license_texts_from_package
\* AfterIndex without the is_empty test of lib.rs:441
AfterIndex_ignores_emptiness(lic, package) ==
    IF GITHUB_HOME_PAGE_REGEX(package.repository) THEN "hosting" ELSE "done"

\* lib.rs:441-448
AfterIndex(lic, package) ==
    IF lic = <<>> /\ GITHUB_HOME_PAGE_REGEX(package.repository)
    THEN "hosting" ELSE "done"

\* NextStage asking for "latest" whatever the exact version yielded
NextStage_always_latest(stage, lic, package) ==
    CASE stage = "exact" -> "latest"
      [] stage = "latest" -> AfterIndex(lic, package)
      [] OTHER -> "done"

\* NextStage with an override that yields nothing falling through to the index
NextStage_override_falls_through(stage, lic, package) ==
    CASE stage = "exact" -> IF lic = <<>> THEN "latest" ELSE AfterIndex(lic, package)
      [] stage = "latest" -> AfterIndex(lic, package)
      [] stage = "hosting" -> "done"
      [] OTHER -> IF lic = <<>> THEN "exact" ELSE "done"

\* NextStage going from the exact version straight to the hosting page
NextStage_skips_latest(stage, lic, package) ==
    CASE stage \in {"exact", "latest"} -> AfterIndex(lic, package)
      [] OTHER -> "done"

\* lib.rs:431-450: the stage that follows a stage that yielded lic
NextStage(stage, lic, package) ==
    CASE stage = "exact" -> IF lic = <<>> THEN "latest" ELSE AfterIndex(lic, package)
      [] stage = "latest" -> AfterIndex(lic, package)
      [] OTHER -> "done"

SourceOf(stage) ==
    CASE stage = "override_text" -> "Override"
      [] stage = "override_url" -> "Override"
      [] stage = "exact" -> "IndexExact"
      [] stage = "latest" -> "IndexLatest"
      [] OTHER -> "HostingScrape"

\* FirstStage looking at the URL overrides before the text overrides
FirstStage_url_first(package) ==
    IF package.name \in DOMAIN config.license_url_overrides THEN "override_url"
    ELSE IF package.name \in DOMAIN config.license_text_overrides THEN "override_text"
    ELSE "exact"

\* lib.rs:406-431: the first poll, up to the first await
FirstStage(package) ==
    IF package.name \in DOMAIN config.license_text_overrides THEN "override_text"
    ELSE IF package.name \in DOMAIN config.license_url_overrides THEN "override_url"
    ELSE "exact"

\* ------------------------------------------------------------ SEMAPHORE
\* futures that hold a SemaphoreGuard (lib.rs:290, 331, 368)
Holders ==
    Cardinality({p \in Pkgs : task[p].pc = "get"})
    + Cardinality({x \in {<<p, i>> : p \in Pkgs, i \in 1..MaxAnchors} :
                     /\ x[2] <= Len(fetches[x[1]])
                     /\ fetches[x[1]][x[2]].pc \in {"get1", "get2"}})

\* try_join_all handing the outputs out in the order of completion
try_join_all_as_completed(outs, order) == [k \in 1..Len(outs) |-> outs[order[k]]]

\* futures::future::try_join_all: the outputs are kept at the index of their
\* future, whatever the order in which the futures complete
try_join_all(outs, order) == outs

\* requests sent whose response is not yet read to its end or dropped: the
\* one of a listing or home page (lib.rs:332-337, 369-374), and in
\* get_license_text_from_url the first GET (lib.rs:291), whose response lives
\* on unread while the second GET (lib.rs:296-301) is awaited
OpenRequests ==
    LET F == {x \in {<<p, i>> : p \in Pkgs, i \in 1..MaxAnchors} :
                 x[2] <= Len(fetches[x[1]])}
    IN Cardinality({p \in Pkgs : task[p].pc = "get"})
       + Cardinality({x \in F : fetches[x[1]][x[2]].pc = "get1"})
       + 2 * Cardinality({x \in F : fetches[x[1]][x[2]].pc = "get2"})

\* the indices of joined futures in the order they completed
CompletionOrder(fs) ==
    [k \in 1..Len(fs) |-> CHOOSE j \in 1..Len(fs) : fs[j].nth = k]

Cancelled == [pc |-> "cancelled", stage |-> "", out |-> <<>>]

\* Abort with the guards of the dropped futures never given back
Abort_leaks_guards(e) ==
    /\ outcome' = e
    /\ phase' = "done"
    /\ task' = [p \in Pkgs |-> Cancelled]
    /\ fetches' = [p \in Pkgs |-> <<>>]
    /\ permits' = permits + 1
    /\ UNCHANGED <<packages, resolve, config, consulted, completed, licenses, pending,
                   reported, vanished>>

\* an Err leaves the innermost try_join_all, then `?` up to async_from_config:
\* every future of the run is dropped, and with it the guard it holds
Abort(e) ==
    /\ outcome' = e
    /\ phase' = "done"
    /\ task' = [p \in Pkgs |-> Cancelled]
    /\ fetches' = [p \in Pkgs |-> <<>>]
    /\ permits' = permits + Holders
    /\ UNCHANGED <<packages, resolve, config, consulted, completed, licenses, pending,
                   reported, vanished>>

\* the source of stage st yielded texts: return them or go on (lib.rs:406-450)
Continue(p, st, texts) ==
    LET nx == NextStage(st, texts, packages[p])
    IN /\ consulted' = [consulted EXCEPT ![p] =
                           Append(@, [source |-> SourceOf(st), texts |-> texts])]
       /\ task' = [task EXCEPT ![p] =
                      IF nx = "done"
                      THEN [pc |-> "done", stage |-> st, out |-> texts]
                      ELSE [pc |-> "acquire", stage |-> nx, out |-> <<>>]]
       /\ completed' = IF nx = "done" THEN Append(completed, p) ELSE completed

\* the futures a stage joins (lib.rs:357-359, 392-394, 418-419); with none to
\* join, try_join_all is ready at once
FanOut(p, st, urls) ==
    IF urls = <<>>
    THEN /\ Continue(p, st, <<>>)
         /\ UNCHANGED fetches
    ELSE /\ task' = [task EXCEPT ![p] = [pc |-> "files", stage |-> st, out |-> <<>>]]
         /\ fetches' = [fetches EXCEPT ![p] =
                           [i \in 1..Len(urls) |-> NewFetch(urls[i])]]
         /\ UNCHANGED <<consulted, completed>>

\* ---------------------------------------------------------------- actions
\* get_license_texts_from_package with a text override (lib.rs:406-412)
StartTextOverride(p) ==
    /\ phase = "fetching"
    /\ task[p].pc = "start"
    /\ FirstStage(packages[p]) = "override_text"
    /\ Continue(p, "override_text", config.license_text_overrides[packages[p].name])
    /\ UNCHANGED <<packages, resolve, config, permits, fetches, requested, phase, licenses,
                   pending, reported, outcome, vanished>>

\* get_license_texts_from_package with a URL override (lib.rs:413-419)
StartUrlOverride(p) ==
    /\ phase = "fetching"
    /\ task[p].pc = "start"
    /\ FirstStage(packages[p]) = "override_url"
    /\ FanOut(p, "override_url", config.license_url_overrides[packages[p].name])
    /\ UNCHANGED <<packages, resolve, config, permits, requested, phase, licenses,
                   pending, reported, outcome, vanished>>

\* get_license_texts_from_package without override, up to the acquire of
\* get_license_texts_from_crates_io_package(package, false) (lib.rs:427-431)
StartIndex(p) ==
    /\ phase = "fetching"
    /\ task[p].pc = "start"
    /\ FirstStage(packages[p]) = "exact"
    /\ task' = [task EXCEPT ![p] = [pc |-> "acquire", stage |-> "exact", out |-> <<>>]]
    /\ UNCHANGED <<packages, resolve, config, permits, fetches, consulted, requested,
                   completed, phase, licenses, pending, reported, outcome, vanished>>

\* SEMAPHORE.acquire().await, then surf::get of the listing or the home page
\* (lib.rs:331-332, 368-369)
Acquire(p) ==
    /\ phase = "fetching"
    /\ task[p].pc = "acquire"
    /\ permits > 0
    /\ permits' = permits - 1
    /\ task' = [task EXCEPT ![p].pc = "get"]
    /\ requested' = [requested EXCEPT ![p] = @ \cup {task[p].stage}]
    /\ UNCHANGED <<packages, resolve, config, fetches, consulted, completed, phase,
                   licenses, pending, reported, outcome, vanished>>

\* the listing or home page answers 404: Ok(vec![]), the guard is dropped
\* (lib.rs:333-336, 370-373)
RespondNotFound(p) ==
    /\ phase = "fetching"
    /\ task[p].pc = "get"
    /\ permits' = permits + 1
    /\ Continue(p, task[p].stage, <<>>)
    /\ UNCHANGED <<packages, resolve, config, fetches, requested, phase, licenses,
                   pending, reported, outcome, vanished>>

\* surf::get or body_string fails (lib.rs:332, 337, 369, 374), or tl::parse
\* does (lib.rs:339, 376)
RespondError(p) ==
    /\ phase = "fetching"
    /\ task[p].pc = "get"
    /\ \E tag \in {"Http", "Html"} : Abort(Err(tag, ""))
    /\ UNCHANGED requested

\* RespondWith keeping the guard while the license files are fetched
RespondWith_keeps_guard(p, page) ==
    /\ phase = "fetching"
    /\ task[p].pc = "get"
    /\ permits' = permits
    /\ page \in (IF task[p].stage = "hosting" THEN HostingPages ELSE ListingPages)
    /\ LET st == task[p].stage
           anchors == query_selector(page)[1]
       IN FanOut(p, st, IF st = "hosting"
                        THEN GithubLicenseUrls(packages[p].name, anchors)
                        ELSE CratesIoLicenseUrls(ListUrl(packages[p], st = "latest"),
                                                 anchors))
    /\ UNCHANGED <<packages, resolve, config, requested, phase, licenses, pending,
                   reported, outcome, vanished>>

\* the page is read, the guard dropped, the page parsed and the license
\* files it names fetched (lib.rs:337-359, 374-394)
RespondWith(p, page) ==
    /\ phase = "fetching"
    /\ task[p].pc = "get"
    /\ permits' = permits + 1
    /\ page \in (IF task[p].stage = "hosting" THEN HostingPages ELSE ListingPages)
    /\ LET st == task[p].stage
           anchors == query_selector(page)[1]
       IN FanOut(p, st, IF st = "hosting"
                        THEN GithubLicenseUrls(packages[p].name, anchors)
                        ELSE CratesIoLicenseUrls(ListUrl(packages[p], st = "latest"),
                                                 anchors))
    /\ UNCHANGED <<packages, resolve, config, requested, phase, licenses, pending,
                   reported, outcome, vanished>>

\* the server answers with some page
RespondPage(p) ==
    \E page \in HostingPages \cup ListingPages : RespondWith(p, page)

\* get_license_text_from_url: acquire, first GET (lib.rs:290-291)
FetchAcquire(p, i) ==
    /\ phase = "fetching"
    /\ i \in 1..Len(fetches[p])
    /\ fetches[p][i].pc = "acquire"
    /\ permits > 0
    /\ permits' = permits - 1
    /\ fetches' = [fetches EXCEPT ![p][i].pc = "get1"]
    /\ requested' = [requested EXCEPT ![p] = @ \cup {"file"}]
    /\ UNCHANGED <<packages, resolve, config, task, consulted, completed, phase, licenses,
                   pending, reported, outcome, vanished>>

\* a get_license_text_from_url future returns Ok(out); when it is the last of
\* its try_join_all the texts are collected (lib.rs:359-364, 394-399, 419-424)
FetchReturn(p, i, out) ==
    LET n == Cardinality({j \in 1..Len(fetches[p]) : fetches[p][j].pc = "done"})
        fs == [fetches[p] EXCEPT ![i] = [url |-> @.url, pc |-> "done", out |-> out,
                                         nth |-> n + 1]]
    IN /\ permits' = permits + 1
       /\ IF \A j \in 1..Len(fs) : fs[j].pc = "done"
          THEN /\ fetches' = [fetches EXCEPT ![p] = <<>>]
               /\ Continue(p, task[p].stage,
                           Flatten(try_join_all([j \in 1..Len(fs) |-> fs[j].out],
                                                CompletionOrder(fs))))
          ELSE /\ fetches' = [fetches EXCEPT ![p] = fs]
               /\ UNCHANGED <<task, consulted, completed>>

\* the first response is 404: Ok(None) (lib.rs:292-295)
FetchNotFound(p, i) ==
    /\ phase = "fetching"
    /\ i \in 1..Len(fetches[p])
    /\ fetches[p][i].pc = "get1"
    /\ FetchReturn(p, i, None)
    /\ UNCHANGED <<packages, resolve, config, requested, phase, licenses, pending,
                   reported, outcome, vanished>>

\* the first response is not 404: the URL is requested a second time, the
\* first response still alive (lib.rs:296)
FetchAgain(p, i) ==
    /\ phase = "fetching"
    /\ i \in 1..Len(fetches[p])
    /\ fetches[p][i].pc = "get1"
    /\ fetches' = [fetches EXCEPT ![p][i].pc = "get2"]
    /\ UNCHANGED <<packages, resolve, config, permits, task, consulted, requested, completed,
                   phase, licenses, pending, reported, outcome, vanished>>

\* the body of the second response is read and the guard dropped
\* (lib.rs:296-315)
FetchBody(p, i) ==
    /\ phase = "fetching"
    /\ i \in 1..Len(fetches[p])
    /\ fetches[p][i].pc = "get2"
    /\ FetchReturn(p, i, Some(ExtractText(fetches[p][i].url,
                                          ServerBody(fetches[p][i].url))))
    /\ UNCHANGED <<packages, resolve, config, requested, phase, licenses, pending,
                   reported, outcome, vanished>>

\* the file is gone when the second GET arrives: the status of the second
\* response is not looked at, the body of the 404 page is read (lib.rs:296-301)
FetchBodyGone(p, i) ==
    /\ phase = "fetching"
    /\ i \in 1..Len(fetches[p])
    /\ fetches[p][i].pc = "get2"
    /\ vanished < MaxVanished
    /\ vanished' = vanished + 1
    /\ FetchReturn(p, i, Some(ExtractText(fetches[p][i].url, "notfound_page")))
    /\ UNCHANGED <<packages, resolve, config, requested, phase, licenses, pending,
                   reported, outcome>>

\* either GET, or body_string, fails (lib.rs:291, 298, 301)
FetchError(p, i) ==
    /\ phase = "fetching"
    /\ i \in 1..Len(fetches[p])
    /\ fetches[p][i].pc \in {"get1", "get2"}
    /\ Abort(Err("Http", ""))
    /\ UNCHANGED requested

\* ------------------------------------------------ async_from_config, tail
\* the package ids a resolve reaches from the ids S along the nodes' dependencies
RECURSIVE ReachableIds(_, _)
ReachableIds(res, S) ==
    LET deps == UNION {res.nodes[i] : i \in S \cap DOMAIN res.nodes}
    IN IF deps \subseteq S THEN S ELSE ReachableIds(res, S \cup deps)

\* MetaPackages keeping only the packages the resolve reaches from its root
MetaPackages_reachable(pkgs, res) ==
    IF res = None THEN pkgs
    ELSE LET ids == ReachableIds(res[1], {res[1].root}) \cap DOMAIN pkgs
             in_reach(pk) == \E i \in ids : pkgs[i] = pk
         IN SelectSeq(pkgs, in_reach)

\* lib.rs:457-462, 466: the run resolves meta.packages, as cargo metadata
\* lists them; meta.resolve is not read
MetaPackages(pkgs, res) == pkgs

\* .zip_eq(&meta.packages).map(|(licenses, package)| (package, licenses))
zip_eq(texts, pkgs) ==
    [i \in 1..Len(pkgs) |-> [package |-> pkgs[i], licenses |-> texts[i]]]

\* every per-package future is done: try_join_all is ready (lib.rs:463-468)
Join ==
    /\ phase = "fetching"
    /\ \A p \in Pkgs : task[p].pc = "done"
    /\ licenses' = zip_eq(try_join_all([p \in Pkgs |-> task[p].out], completed),
                          MetaPackages(packages, resolve))
    /\ pending' = DOMAIN config.license_copying_crates
    /\ phase' = "copying"
    /\ UNCHANGED <<packages, resolve, config, permits, task, fetches, consulted, requested,
                   completed, reported, outcome, vanished>>

\* indices of the entries of package name n
EntriesNamed(lics, n) == {i \in 1..Len(lics) : lics[i].package.name = n}

\* CopiedLicenses without the sort: the last entry of the name
CopiedLicenses_unsorted(lics, copied) ==
    LET c == EntriesNamed(lics, copied)
    IN IF c = {} THEN None
       ELSE Some(lics[CHOOSE i \in c : \A j \in c : j <= i].licenses)

\* lib.rs:471-476: filter by name, sorted_by_key(len) (a stable sort), last():
\* of the entries with the most texts, the last one
CopiedLicenses(lics, copied) ==
    LET c == EntriesNamed(lics, copied)
    IN IF c = {} THEN None
       ELSE LET i == CHOOSE i \in c : \A j \in c :
                        \/ Len(lics[j].licenses) < Len(lics[i].licenses)
                        \/ Len(lics[j].licenses) = Len(lics[i].licenses) /\ j <= i
            IN Some(lics[i].licenses)

\* FindCopier taking the last entry of the name
FindCopier_last(lics, copier) ==
    LET c == EntriesNamed(lics, copier)
    IN IF c = {} THEN None ELSE Some(CHOOSE i \in c : \A j \in c : j <= i)

\* lib.rs:478-480: iter_mut().find(name == copier): the first entry of that name
FindCopier(lics, copier) ==
    LET c == EntriesNamed(lics, copier)
    IN IF c = {} THEN None ELSE Some(CHOOSE i \in c : \A j \in c : i <= j)

\* CopyStep naming the other side of the rule in its errors
CopyStep_names_other_side(lics, copier, copied) ==
    LET src == CopiedLicenses(lics, copied)
        dst == FindCopier(lics, copier)
    IN IF src = None THEN [err |-> Err("CopiedCrateNotFound", copier), lics |-> <<>>]
       ELSE IF dst = None THEN [err |-> Err("CopierCrateNotFound", copied), lics |-> <<>>]
       ELSE [err |-> Running, lics |-> [lics EXCEPT ![dst[1]].licenses = src[1]]]

\* one iteration of the loop over license_copying_crates (lib.rs:470-483)
CopyStep(lics, copier, copied) ==
    LET src == CopiedLicenses(lics, copied)
        dst == FindCopier(lics, copier)
    IN IF src = None THEN [err |-> Err("CopiedCrateNotFound", copied), lics |-> <<>>]
       ELSE IF dst = None THEN [err |-> Err("CopierCrateNotFound", copier), lics |-> <<>>]
       ELSE [err |-> Running, lics |-> [lics EXCEPT ![dst[1]].licenses = src[1]]]

\* the whole loop (lib.rs:470-483), the HashMap iterated in the given order
RECURSIVE ApplyInOrder(_, _)
ApplyInOrder(lics, order) ==
    IF order = <<>> THEN [err |-> Running, lics |-> lics]
    ELSE LET r == CopyStep(lics, Head(order),
                           config.license_copying_crates[Head(order)])
         IN IF r.err # Running THEN r ELSE ApplyInOrder(r.lics, Tail(order))

\* the orders in which a HashMap with the keys S may be iterated
Orders(S) ==
    {o \in SeqsUpTo(S, Cardinality(S)) : Len(o) = Cardinality(S) /\ NoRepeat(o)}

\* the loop takes the rules in the HashMap's iteration order, which is any
CopyLicense(copier) ==
    /\ phase = "copying"
    /\ copier \in pending
    /\ LET r == CopyStep(licenses, copier, config.license_copying_crates[copier])
       IN /\ r.err = Running
          /\ licenses' = r.lics
    /\ pending' = pending \ {copier}
    /\ UNCHANGED <<packages, resolve, config, permits, task, fetches, consulted, requested,
                   completed, phase, reported, outcome, vanished>>

\* a rule names a package that is not in the list: `?` returns the error
CopyFail(copier) ==
    /\ phase = "copying"
    /\ copier \in pending
    /\ LET r == CopyStep(licenses, copier, config.license_copying_crates[copier])
       IN /\ r.err # Running
          /\ licenses' = r.lics
          /\ outcome' = r.err
    /\ phase' = "done"
    /\ UNCHANGED <<packages, resolve, config, permits, task, fetches, consulted, requested,
                   completed, pending, reported, vanished>>

\* UnlicensedPackages without the filter on ignored_crates
UnlicensedPackages_reports_ignored(lics) ==
    LET keep(e) == e.licenses = <<>>
        sel == SelectSeq(lics, keep)
    IN [i \in 1..Len(sel) |-> <<sel[i].package.name, sel[i].package.version>>]

\* lib.rs:485-490: entries without texts whose name is not ignored
UnlicensedPackages(lics) ==
    LET keep(e) == e.licenses = <<>> /\ e.package.name \notin config.ignored_crates
        sel == SelectSeq(lics, keep)
    IN [i \in 1..Len(sel) |-> <<sel[i].package.name, sel[i].package.version>>]

\* Report taking the warning branch whatever panic_if_no_license_found is
Report_warns_only ==
    /\ phase = "copying"
    /\ pending = {}
    /\ reported' = UnlicensedPackages(licenses)
    /\ outcome' = Ok
    /\ phase' = "done"
    /\ UNCHANGED <<packages, resolve, config, permits, task, fetches, consulted,
                   requested, completed, licenses, pending, vanished>>

\* lib.rs:491-500
Report ==
    /\ phase = "copying"
    /\ pending = {}
    /\ LET u == UnlicensedPackages(licenses)
       IN /\ reported' = u
          /\ IF u # <<>> /\ config.panic_if_no_license_found
             THEN /\ outcome' = Panic("")
                  /\ licenses' = <<>>
             ELSE /\ outcome' = Ok
                  /\ UNCHANGED licenses
    /\ phase' = "done"
    /\ UNCHANGED <<packages, resolve, config, permits, task, fetches, consulted, requested,
                   completed, pending, vanished>>

\* ------------------------------------------------- to_bytes, from_bytes
\* rmp_serde::to_vec_named writes MessagePack: a Vec and a tuple as an array,
\* a struct as a map from field names, a String as a str, None as nil.  The
\* bytes are kept as the sequence of the MessagePack items.
ArrayHeader(n) == <<"array", n>>
MapHeader(n) == <<"map", n>>
Str(x) == <<"str", x>>
Nil == <<"nil">>

\* semver::Version is written as its Display string; the model's version v
\* stands for 0.v.0
VersionString(v) == <<0, v, 0>>

\* Version::parse
ParseVersion(x) ==
    IF Len(x) = 3 /\ x[1] = 0 /\ x[3] = 0 THEN Some(x[2]) ELSE None

\* EncodeRepository writing the empty string for a package without repository
EncodeRepository_unwrap_or_default(repository) ==
    IF repository = "none" THEN Str("") ELSE Str(repository)

\* Package::repository: Option<String>
EncodeRepository(repository) ==
    IF repository = "none" THEN Nil ELSE Str(repository)

\* the derived Serialize of cargo_metadata::Package, as a map
EncodePackage(package) ==
    <<MapHeader(3),
      Str("name"), Str(package.name),
      Str("version"), Str(VersionString(package.version)),
      Str("repository"), EncodeRepository(package.repository)>>

\* Cow<[String]>
EncodeTexts(texts) ==
    <<ArrayHeader(Len(texts))>> \o [i \in 1..Len(texts) |-> Str(texts[i])]

\* (Package, Cow<[String]>)
EncodeEntry(e) ==
    <<ArrayHeader(2)>> \o EncodePackage(e.package) \o EncodeTexts(e.licenses)

\* lib.rs:505-507
to_bytes(r) ==
    <<ArrayHeader(Len(r))>> \o Flatten([i \in 1..Len(r) |-> EncodeEntry(r[i])])

\* what a step of the deserializer returns: the value and the bytes left
Parsed(val, rest) == [ok |-> TRUE, val |-> val, rest |-> rest]
Failed == [ok |-> FALSE, val |-> <<>>, rest |-> <<>>]

NextIs(bytes, kind) == bytes # <<>> /\ Head(bytes)[1] = kind

DecodeStr(bytes) ==
    IF NextIs(bytes, "str") THEN Parsed(Head(bytes)[2], Tail(bytes)) ELSE Failed

DecodeVersion(bytes) ==
    LET x == DecodeStr(bytes)
    IN IF x.ok /\ ParseVersion(x.val) # None
       THEN Parsed(ParseVersion(x.val)[1], x.rest)
       ELSE Failed

DecodeRepository(bytes) ==
    IF NextIs(bytes, "nil") THEN Parsed("none", Tail(bytes)) ELSE DecodeStr(bytes)

\* the derived Deserialize of Package reading n fields of a map, in any order
RECURSIVE DecodeFields(_, _, _)
DecodeFields(bytes, n, acc) ==
    IF n = 0 THEN Parsed(acc, bytes)
    ELSE LET k == DecodeStr(bytes)
             v == CASE k.val = "name" -> DecodeStr(k.rest)
                    [] k.val = "version" -> DecodeVersion(k.rest)
                    [] k.val = "repository" -> DecodeRepository(k.rest)
                    [] OTHER -> Failed
         IN IF ~k.ok \/ k.val \in DOMAIN acc THEN Failed
            ELSE IF ~v.ok THEN Failed
            ELSE DecodeFields(v.rest, n - 1, (k.val :> v.val) @@ acc)

\* a missing Option field is None, any other missing field an error
DecodePackage(bytes) ==
    IF ~NextIs(bytes, "map") THEN Failed
    ELSE LET f == DecodeFields(Tail(bytes), Head(bytes)[2], EmptyMap)
         IN IF ~f.ok \/ ~({"name", "version"} \subseteq DOMAIN f.val) THEN Failed
            ELSE Parsed([name |-> f.val["name"],
                         version |-> f.val["version"],
                         repository |-> IF "repository" \in DOMAIN f.val
                                        THEN f.val["repository"] ELSE "none"],
                        f.rest)

RECURSIVE DecodeStrings(_, _, _)
DecodeStrings(bytes, n, acc) ==
    IF n = 0 THEN Parsed(acc, bytes)
    ELSE LET x == DecodeStr(bytes)
         IN IF ~x.ok THEN Failed ELSE DecodeStrings(x.rest, n - 1, Append(acc, x.val))

DecodeTexts(bytes) ==
    IF NextIs(bytes, "array") THEN DecodeStrings(Tail(bytes), Head(bytes)[2], <<>>)
    ELSE Failed

DecodeEntry(bytes) ==
    IF ~(NextIs(bytes, "array") /\ Head(bytes)[2] = 2) THEN Failed
    ELSE LET pk == DecodePackage(Tail(bytes))
             tx == DecodeTexts(pk.rest)
         IN IF ~pk.ok THEN Failed
            ELSE IF ~tx.ok THEN Failed
            ELSE Parsed([package |-> pk.val, licenses |-> tx.val], tx.rest)

RECURSIVE DecodeEntries(_, _, _)
DecodeEntries(bytes, n, acc) ==
    IF n = 0 THEN Parsed(acc, bytes)
    ELSE LET e == DecodeEntry(bytes)
         IN IF ~e.ok THEN Failed ELSE DecodeEntries(e.rest, n - 1, Append(acc, e.val))

\* lib.rs:519-521: Ok(LicenseRetriever(..)), or Err(Decode)
from_bytes(bytes) ==
    IF ~NextIs(bytes, "array") THEN None
    ELSE LET r == DecodeEntries(Tail(bytes), Head(bytes)[2], <<>>)
         IN IF r.ok /\ r.rest = <<>> THEN Some(r.val) ELSE None

\* --------------------------------------------------------- specification
\* the resolve of a single crate: the first package is the root and depends
\* on every other package (package ids are the places in meta.packages)
RootedResolve(pkgs) ==
    Some([root |-> 1,
          nodes |-> [i \in DOMAIN pkgs |->
                        IF i = 1 THEN (DOMAIN pkgs) \ {1} ELSE {}]])

\* the version of a package is its place in the list; the first is named "a"
PackageLists ==
    {pk \in [1..NumPackages -> [name : Names, version : 1..NumPackages,
                                repository : Repositories]] :
        /\ \A i \in 1..NumPackages : pk[i].version = i
        /\ pk[1].name = "a"}

TextOverrideChoices ==
    {EmptyMap, "a" :> <<>>, "a" :> <<Literal("a", "1"), Literal("a", "2")>>}

UrlOverrideChoices ==
    {EmptyMap, "a" :> <<RawUrl("a", "LICENSE-MIT"), RawUrl("a", "LICENSE-APACHE")>>
                 @@ "b" :> <<RawUrl("b", "LICENSE")>>}

\* copy rules, ignored crates and strictness of a run
TailChoices ==
    {[copying |-> "b" :> "a", ignored |-> {}, strict |-> TRUE]}

Configs ==
    {[license_text_overrides |-> t,
      license_url_overrides |-> u,
      license_copying_crates |-> c.copying,
      ignored_crates |-> c.ignored,
      panic_if_no_license_found |-> c.strict] :
        t \in TextOverrideChoices, u \in UrlOverrideChoices, c \in TailChoices}

Init ==
    /\ packages \in PackageLists
    /\ resolve = RootedResolve(packages)
    /\ config \in Configs
    /\ permits = MaxGetReqs
    /\ task = [p \in Pkgs |-> [pc |-> "start", stage |-> "", out |-> <<>>]]
    /\ fetches = [p \in Pkgs |-> <<>>]
    /\ consulted = [p \in Pkgs |-> <<>>]
    /\ requested = [p \in Pkgs |-> {}]
    /\ completed = <<>>
    /\ phase = "fetching"
    /\ licenses = <<>>
    /\ pending = {}
    /\ reported = <<>>
    /\ outcome = Running
    /\ vanished = 0

Next ==
    \/ \E p \in Pkgs : StartTextOverride(p)
    \/ \E p \in Pkgs : StartUrlOverride(p)
    \/ \E p \in Pkgs : StartIndex(p)
    \/ \E p \in Pkgs : Acquire(p)
    \/ \E p \in Pkgs : RespondNotFound(p)
    \/ \E p \in Pkgs : RespondError(p)
    \/ \E p \in Pkgs : RespondPage(p)
    \/ \E p \in Pkgs, i \in 1..MaxAnchors : FetchAcquire(p, i)
    \/ \E p \in Pkgs, i \in 1..MaxAnchors : FetchNotFound(p, i)
    \/ \E p \in Pkgs, i \in 1..MaxAnchors : FetchAgain(p, i)
    \/ \E p \in Pkgs, i \in 1..MaxAnchors : FetchBody(p, i)
    \/ \E p \in Pkgs, i \in 1..MaxAnchors : FetchBodyGone(p, i)
    \/ \E p \in Pkgs, i \in 1..MaxAnchors : FetchError(p, i)
    \/ Join
    \/ \E copier \in pending : CopyLicense(copier)
    \/ \E copier \in pending : CopyFail(copier)
    \/ Report

Spec == Init /\ [][Next]_vars

\* ------------------------------------------------- a run that is scheduled
\* the runs without any override, and those with a text override for "a" and
\* URL overrides for "a" and "b"
LiveConfigs ==
    {c \in Configs :
        (c.license_text_overrides = EmptyMap /\ c.license_url_overrides = EmptyMap)
        \/ (/\ "a" \in DOMAIN c.license_text_overrides
            /\ c.license_text_overrides["a"] # <<>>
            /\ c.license_url_overrides # EmptyMap)}

\* MAX_GET_REQS is any number from 1 on; the first package has no repository
InitLive ==
    /\ packages \in {pk \in PackageLists : pk[1].repository = "none"}
    /\ resolve = RootedResolve(packages)
    /\ config \in LiveConfigs
    /\ permits \in 1..MaxGetReqs
    /\ task = [p \in Pkgs |-> [pc |-> "start", stage |-> "", out |-> <<>>]]
    /\ fetches = [p \in Pkgs |-> <<>>]
    /\ consulted = [p \in Pkgs |-> <<>>]
    /\ requested = [p \in Pkgs |-> {}]
    /\ completed = <<>>
    /\ phase = "fetching"
    /\ licenses = <<>>
    /\ pending = {}
    /\ reported = <<>>
    /\ outcome = Running
    /\ vanished = 0

\* block_on polls every future that can go on, a permit that is released wakes
\* a waiting acquire, and every request sent gets its response or its error:
\* the run takes a step whenever one is possible
SpecLive == InitLive /\ [][Next]_vars /\ WF_vars(Next)

\* ------------------------------------------ the tail of a run, on its own
\* The run from the moment every per-package future is done: the packages
\* were resolved through the index at their exact version, to no, one or two
\* texts, and every set of copy rules over the names is tried.
RuleNames == Names \cup {"zz"}

CopyRuleChoices ==
    UNION {[D -> RuleNames] : D \in SUBSET RuleNames}

CopyConfigs ==
    [license_text_overrides : {EmptyMap},
     license_url_overrides : {EmptyMap},
     license_copying_crates : CopyRuleChoices,
     ignored_crates : {{}, {"a"}, {"b"}},
     panic_if_no_license_found : BOOLEAN]

CopyPackageLists ==
    {pk \in [1..NumPackages -> [name : Names, version : 1..NumPackages,
                                repository : {"none"}]] :
        \A i \in 1..NumPackages : pk[i].version = i}

ListingChoices == {<<>>, <<"./LICENSE-MIT">>, <<"./LICENSE-MIT", "./licence.txt">>}

\* the texts of the files a listing page of the package's version names
TextsOfListing(package, page) ==
    LET urls == CratesIoLicenseUrls(ListUrl(package, FALSE), page)
    IN [i \in 1..Len(urls) |-> ExtractText(urls[i], ServerBody(urls[i]))]

\* the state of a package's future that found page at its exact version (and,
\* with no license file there, a 404 at "latest")
ResolvedBy(package, page) ==
    LET texts == TextsOfListing(package, page)
    IN [task |-> [pc |-> "done", stage |-> IF texts = <<>> THEN "latest" ELSE "exact",
                  out |-> texts],
        consulted |-> IF texts = <<>>
                      THEN <<[source |-> "IndexExact", texts |-> <<>>],
                             [source |-> "IndexLatest", texts |-> <<>>]>>
                      ELSE <<[source |-> "IndexExact", texts |-> texts]>>,
        requested |-> IF texts = <<>> THEN {"exact", "latest"} ELSE {"exact", "file"}]

InitCopy ==
    /\ packages \in CopyPackageLists
    /\ resolve = RootedResolve(packages)
    /\ config \in CopyConfigs
    /\ permits = MaxGetReqs
    /\ \E page \in [Pkgs -> ListingChoices] :
          /\ task = [p \in Pkgs |-> ResolvedBy(packages[p], page[p]).task]
          /\ consulted = [p \in Pkgs |-> ResolvedBy(packages[p], page[p]).consulted]
          /\ requested = [p \in Pkgs |-> ResolvedBy(packages[p], page[p]).requested]
    /\ fetches = [p \in Pkgs |-> <<>>]
    /\ completed = [p \in Pkgs |-> p]
    /\ phase = "fetching"
    /\ licenses = <<>>
    /\ pending = {}
    /\ reported = <<>>
    /\ outcome = Running
    /\ vanished = 0

NextCopy ==
    \/ Join
    \/ \E copier \in pending : CopyLicense(copier)
    \/ \E copier \in pending : CopyFail(copier)
    \/ Report

SpecCopy == InitCopy /\ [][NextCopy]_vars

\* --------------------------------- the tail of a run with three packages
\* Three packages, among them several versions of one name, and every set of
\* copy rules between their names (chains and cycles among them).
ChainNames == {"a", "b", "c"}

ChainPackageLists ==
    {pk \in [1..NumCopyPackages -> [name : ChainNames, version : 1..NumCopyPackages,
                                    repository : {"none"}]] :
        /\ \A i \in 1..NumCopyPackages : pk[i].version = i
        /\ pk[1].name = "a"}

ChainConfigs ==
    [license_text_overrides : {EmptyMap},
     license_url_overrides : {EmptyMap},
     license_copying_crates : UNION {[D -> ChainNames] : D \in SUBSET ChainNames},
     ignored_crates : {{}, {"a"}},
     panic_if_no_license_found : BOOLEAN]

InitChains ==
    /\ packages \in ChainPackageLists
    /\ resolve = RootedResolve(packages)
    /\ config \in ChainConfigs
    /\ permits = MaxGetReqs
    /\ \E page \in [Pkgs -> ListingChoices] :
          /\ task = [p \in Pkgs |-> ResolvedBy(packages[p], page[p]).task]
          /\ consulted = [p \in Pkgs |-> ResolvedBy(packages[p], page[p]).consulted]
          /\ requested = [p \in Pkgs |-> ResolvedBy(packages[p], page[p]).requested]
    /\ fetches = [p \in Pkgs |-> <<>>]
    /\ completed = [p \in Pkgs |-> p]
    /\ phase = "fetching"
    /\ licenses = <<>>
    /\ pending = {}
    /\ reported = <<>>
    /\ outcome = Running
    /\ vanished = 0

SpecChains == InitChains /\ [][NextCopy]_vars

\* ------------------------------ the tail of a run, over dependency graphs
\* an id that names no package (a dangling dependency)
DanglingId == NumPackages + 1

\* what cargo metadata may give as meta.resolve: nothing (--no-deps), or a
\* root and the nodes of some of the packages with their dependency ids, ids
\* being the places in meta.packages; cycles and dangling ids among them
Resolves(pkgs) ==
    {None} \cup
    {Some([root |-> r, nodes |-> n]) :
        r \in DOMAIN pkgs,
        n \in UNION {[D -> SUBSET ((DOMAIN pkgs) \cup {DanglingId})] :
                        D \in SUBSET (DOMAIN pkgs)}}

WalkConfigs ==
    [license_text_overrides : {EmptyMap},
     license_url_overrides : {EmptyMap},
     license_copying_crates : {EmptyMap, "b" :> "a"},
     ignored_crates : {{}},
     panic_if_no_license_found : BOOLEAN]

InitWalk ==
    /\ packages \in CopyPackageLists
    /\ resolve \in Resolves(packages)
    /\ config \in WalkConfigs
    /\ permits = MaxGetReqs
    /\ \E page \in [Pkgs -> ListingChoices] :
          /\ task = [p \in Pkgs |-> ResolvedBy(packages[p], page[p]).task]
          /\ consulted = [p \in Pkgs |-> ResolvedBy(packages[p], page[p]).consulted]
          /\ requested = [p \in Pkgs |-> ResolvedBy(packages[p], page[p]).requested]
    /\ fetches = [p \in Pkgs |-> <<>>]
    /\ completed = [p \in Pkgs |-> p]
    /\ phase = "fetching"
    /\ licenses = <<>>
    /\ pending = {}
    /\ reported = <<>>
    /\ outcome = Running
    /\ vanished = 0

SpecWalk == InitWalk /\ [][NextCopy]_vars

\* ------------------------------------------------------------- properties
HasOverride(p) == FirstStage(packages[p]) \in {"override_text", "override_url"}

\* source src was asked for package p
Consulted(p, src) ==
    CASE src = "Override" -> HasOverride(p) /\ task[p].pc # "start"
      [] src = "IndexExact" -> "exact" \in requested[p]
      [] src = "IndexLatest" -> "latest" \in requested[p]
      [] src = "HostingScrape" -> "hosting" \in requested[p]
      [] OTHER -> FALSE

Yielded(p, src) ==
    \E k \in 1..Len(consulted[p]) : consulted[p][k].source = src

YieldedEmpty(p, src) ==
    \E k \in 1..Len(consulted[p]) :
        consulted[p][k].source = src /\ consulted[p][k].texts = <<>>

YieldedTexts(p, src) ==
    \E k \in 1..Len(consulted[p]) :
        consulted[p][k].source = src /\ consulted[p][k].texts # <<>>

\* the texts of the first source that yielded any, or none
FirstNonEmpty(cs) ==
    LET K == {k \in 1..Len(cs) : cs[k].texts # <<>>}
    IN IF K = {} THEN <<>> ELSE cs[CHOOSE k \in K : \A j \in K : k <= j].texts

SpecChain ==
    <<"Override", "LocalAndRepo", "IndexExact", "IndexLatest", "HostingScrape",
      "CorpusLookup">>

CodeChain == <<"Override", "IndexExact", "IndexLatest", "HostingScrape">>

Position(chain, src) == CHOOSE i \in 1..Len(chain) : chain[i] = src

\* C1, as the spec states it: the sources are consulted in the order Override,
\* LocalAndRepo, IndexExact, IndexLatest, HostingScrape, CorpusLookup, a
\* non-override source only if every earlier one yielded an empty result, and
\* the resolved texts are those of the first source that yielded any.
C1_SpecChain ==
    \A p \in Pkgs :
        /\ \A i \in 2..Len(SpecChain) :
              Consulted(p, SpecChain[i])
                  => \A j \in 2..(i - 1) : YieldedEmpty(p, SpecChain[j])
        /\ task[p].pc = "done" => task[p].out = FirstNonEmpty(consulted[p])

\* C1, amended: the chain of the code is Override, IndexExact, IndexLatest,
\* HostingScrape, in that order; a non-override source is consulted only for
\* a package without override and only if every earlier non-override source
\* yielded an empty result (HostingScrape only for a GitHub repository); the
\* resolved texts are those of the first source that yielded any, else none.
C1_ChainOrder ==
    \A p \in Pkgs :
        /\ \A i \in 2..Len(CodeChain) :
              Consulted(p, CodeChain[i])
                  => /\ ~HasOverride(p)
                     /\ \A j \in 2..(i - 1) : YieldedEmpty(p, CodeChain[j])
        /\ Consulted(p, "HostingScrape")
              => GITHUB_HOME_PAGE_REGEX(packages[p].repository)
        /\ \A k \in 1..Len(consulted[p]) :
              /\ consulted[p][k].source \in {CodeChain[i] : i \in 1..Len(CodeChain)}
              /\ \A l \in 1..(k - 1) :
                    Position(CodeChain, consulted[p][l].source)
                        < Position(CodeChain, consulted[p][k].source)
        /\ task[p].pc = "done" => task[p].out = FirstNonEmpty(consulted[p])

\* a package went through the index at its version, the index at "latest" and
\* the hosting page, and the hosting page yielded its texts
C1_Witness ==
    \E p \in Pkgs :
        /\ task[p].pc = "done"
        /\ Len(consulted[p]) = 3
        /\ task[p].out # <<>>

\* C2: for a package whose name has a text override no request is ever sent,
\* and its resolved texts are the override texts.
C2_TextOverrideNoRequest ==
    \A p \in Pkgs :
        packages[p].name \in DOMAIN config.license_text_overrides
            => /\ requested[p] = {}
               /\ fetches[p] = <<>>
               /\ task[p].pc \notin {"acquire", "get", "files"}
               /\ task[p].pc = "done"
                     => task[p].out = config.license_text_overrides[packages[p].name]
               /\ (phase = "copying" /\ pending = DOMAIN config.license_copying_crates)
                     => licenses[p].licenses
                            = config.license_text_overrides[packages[p].name]

\* a package with texts from a text override (and a URL override that lost to
\* it) is resolved while requests were sent for another package
C2_Witness ==
    \E p, q \in Pkgs :
        /\ packages[p].name \in DOMAIN config.license_text_overrides
        /\ packages[p].name \in DOMAIN config.license_url_overrides
        /\ task[p].pc = "done"
        /\ task[p].out # <<>>
        /\ requested[q] # {}

\* every other future joined with fetch i of package p has returned Ok(None)
OthersNotFound(p, i) ==
    \A j \in 1..Len(fetches[p]) :
        j # i => fetches[p][j].pc = "done" /\ fetches[p][j].out = None

\* C3: an override is terminal even when it yields nothing: with an empty text
\* override, or a URL override whose URLs all answer 404, the resolved texts
\* are empty and neither index listing nor the hosting page is requested.
C3_EmptyOverrideTerminal ==
    /\ [](\A p \in Pkgs :
            HasOverride(p)
                => /\ requested[p] \cap {"exact", "latest", "hosting"} = {}
                   /\ task[p].pc = "done" /\ FirstStage(packages[p]) = "override_text"
                         => task[p].out
                                = config.license_text_overrides[packages[p].name])
    /\ [][\A p \in Pkgs, i \in 1..MaxAnchors :
            (/\ task[p].stage = "override_url"
             /\ FetchNotFound(p, i)
             /\ OthersNotFound(p, i))
                => /\ task'[p].pc = "done"
                   /\ task'[p].out = <<>>
                   /\ requested'[p] = {"file"}
                   /\ outcome' = Running]_vars

\* one package is resolved to nothing by an empty text override, another by a
\* URL override none of whose URLs gave a document
C3_Witness ==
    \E p, q \in Pkgs :
        /\ FirstStage(packages[p]) = "override_text"
        /\ task[p].pc = "done" /\ task[p].out = <<>>
        /\ FirstStage(packages[q]) = "override_url"
        /\ task[q].pc = "done" /\ task[q].out = <<>>
        /\ requested[q] = {"file"}

\* C4: without override, "latest" is requested only if the lookup at the exact
\* version yielded nothing; when the exact version yields a document, neither
\* "latest" nor the hosting page is ever requested.
C4_LatestOnlyAfterEmptyExact ==
    \A p \in Pkgs :
        ~HasOverride(p)
            => /\ "latest" \in requested[p] => YieldedEmpty(p, "IndexExact")
               /\ YieldedTexts(p, "IndexExact")
                     => /\ "latest" \notin requested[p]
                        /\ "hosting" \notin requested[p]
                        /\ task[p].pc \in {"done", "cancelled"}

\* a package with a GitHub repository is resolved by its exact version alone
C4_Witness ==
    \E p \in Pkgs :
        /\ GITHUB_HOME_PAGE_REGEX(packages[p].repository)
        /\ task[p].pc = "done"
        /\ Len(consulted[p]) = 1
        /\ YieldedTexts(p, "IndexExact")
        /\ requested[p] = {"exact", "file"}

\* C5: a 404 on the index listing is an empty result, no error: the run goes
\* on and the package's chain moves to the next source ("latest" after the
\* exact version, then the hosting page when the repository has one).
C5_ListingNotFoundFallsBack ==
    [][\A p \in Pkgs :
          (task[p].stage \in {"exact", "latest"} /\ RespondNotFound(p))
              => /\ consulted'[p][Len(consulted'[p])].texts = <<>>
                 /\ Len(consulted'[p]) = Len(consulted[p]) + 1
                 /\ outcome' = Running
                 /\ phase' = "fetching"
                 /\ IF task[p].stage = "exact"
                    THEN task'[p].pc = "acquire" /\ task'[p].stage = "latest"
                    ELSE IF GITHUB_HOME_PAGE_REGEX(packages[p].repository)
                    THEN task'[p].pc = "acquire" /\ task'[p].stage = "hosting"
                    ELSE task'[p].pc = "done" /\ task'[p].out = <<>>]_vars

\* both listings of a package came back empty and its hosting page is now
\* being requested
C5_Witness ==
    \E p \in Pkgs :
        /\ YieldedEmpty(p, "IndexExact")
        /\ YieldedEmpty(p, "IndexLatest")
        /\ task[p].stage = "hosting"
        /\ task[p].pc = "get"

\* C6: the number of requests in flight (sent and not yet fully read) never
\* exceeds the bound of the admission gate.
C6_InFlightBounded == OpenRequests <= MaxGetReqs

\* the futures between acquire and drop(lock) do stay within the bound
GuardsBounded == Holders <= MaxGetReqs /\ permits = MaxGetReqs - Holders

Joined == phase = "copying" \/ (phase = "done" /\ outcome = Ok)

\* C7: a successful run returns one entry per input package, in the order of
\* the input list, each with the texts resolved for that package (or, for the
\* copier of a copy rule already applied, the texts copied to it), whatever
\* the order in which the per-package futures completed.
C7_ResultInPackageOrder ==
    Joined
        => /\ Len(licenses) = NumPackages
           /\ \A i \in Pkgs :
                 /\ licenses[i].package = packages[i]
                 /\ (\A c \in (DOMAIN config.license_copying_crates) \ pending :
                         FindCopier(licenses, c) # Some(i))
                       => licenses[i].licenses = task[i].out

\* the run succeeded, the second package completed before the first, and the
\* two were resolved to different texts
C7_Witness ==
    /\ phase = "done"
    /\ outcome = Ok
    /\ completed = <<2, 1>>
    /\ task[1].out # task[2].out
    /\ task[2].out # <<>>
    /\ licenses[1].licenses = task[1].out

\* C8: a hard failure in any package's chain (transport error, HTML parse
\* error, unrecognized page shape) ends the run with that error and without
\* result; a 404 on a listing, a hosting page or a license file never does.
C8_HardFailureAborts ==
    /\ [](outcome.kind = "err" => phase = "done" /\ licenses = <<>>)
    /\ [][\A p \in Pkgs :
            (RespondError(p) \/ \E i \in 1..MaxAnchors : FetchError(p, i))
                => outcome'.kind = "err" /\ phase' = "done"]_vars
    /\ [][\A p \in Pkgs :
            (task[p].stage = "hosting" /\ RespondWith(p, <<>>))
                => outcome'.kind = "err" /\ outcome'.tag = "NotGithubHomePage"]_vars
    /\ [][\A p \in Pkgs :
            (RespondNotFound(p) \/ \E i \in 1..MaxAnchors : FetchNotFound(p, i))
                => outcome' = Running]_vars

PackageNames == {packages[i].name : i \in Pkgs}

\* the run came to its end through the tail of async_from_config
TailEnded == phase = "done" /\ \A p \in Pkgs : task[p].pc = "done"

\* C9: for a copy rule Y<-X with X and Y both among the packages, after the
\* run the texts of Y are the resolved texts of X.
C9_CopyEqualsSource ==
    (phase = "done" /\ outcome = Ok)
        => \A y \in DOMAIN config.license_copying_crates :
              LET x == config.license_copying_crates[y]
              IN (x \in PackageNames /\ y \in PackageNames)
                    => licenses[FindCopier(licenses, y)[1]].licenses
                           \in {task[i].out : i \in EntriesNamed(licenses, x)}

\* C10, as the spec states it: a rule whose copied-from package is missing
\* ends the run with CopiedCrateNotFound naming it, a rule whose copier is
\* missing with CopierCrateNotFound naming it.
C10_EachSideNamed ==
    TailEnded
        => \A y \in DOMAIN config.license_copying_crates :
              /\ config.license_copying_crates[y] \notin PackageNames
                    => outcome = Err("CopiedCrateNotFound",
                                     config.license_copying_crates[y])
              /\ y \notin PackageNames => outcome = Err("CopierCrateNotFound", y)

\* the rules that name a package that is not in the list
BadRules ==
    {y \in DOMAIN config.license_copying_crates :
        y \notin PackageNames \/ config.license_copying_crates[y] \notin PackageNames}

\* the error the loop returns when it comes to rule y
ErrorOfRule(y) ==
    IF config.license_copying_crates[y] \notin PackageNames
    THEN Err("CopiedCrateNotFound", config.license_copying_crates[y])
    ELSE Err("CopierCrateNotFound", y)

\* C10, amended: when every package was fetched and some rule names a package
\* that is not in the list, the run returns no result but the error of one
\* such rule (the first the loop comes to), even if other rules were valid:
\* CopiedCrateNotFound naming the copied-from package when that one is missing
\* (also when the copier is missing too), CopierCrateNotFound naming the copier
\* when only the copier is missing. With no such rule there is no such error.
C10_MissingSideNamed ==
    TailEnded
        => IF BadRules = {}
           THEN outcome.kind # "err"
           ELSE /\ licenses = <<>>
                /\ \E y \in BadRules : outcome = ErrorOfRule(y)

\* the run failed on a rule whose copied-from package is missing, after it had
\* applied a valid rule
C10_Witness ==
    /\ TailEnded
    /\ outcome.tag = "CopiedCrateNotFound"
    /\ outcome.arg = "zz"
    /\ \E y \in (DOMAIN config.license_copying_crates) \ pending :
          y \in PackageNames /\ config.license_copying_crates[y] \in PackageNames

\* the texts the per-package futures returned, paired with their packages
ResolvedLicenses == zip_eq([p \in Pkgs |-> task[p].out], packages)

\* C11: the result of applying the copy rules does not depend on the order in
\* which they are applied: the texts the loop ends with are those that every
\* order of the rules (chains such as Z<-Y with Y<-X among them) ends with.
C11_CopyOrderIndependent ==
    (phase = "copying" /\ pending = {})
        => \A o \in Orders(DOMAIN config.license_copying_crates) :
              ApplyInOrder(ResolvedLicenses, o).lics = licenses

\* "name version" of entry i, as the message names it
NameVersion(lics, i) == <<lics[i].package.name, lics[i].package.version>>

\* C12: the packages reported as having no license are exactly the result
\* entries whose texts are empty after all copy rules were applied and whose
\* name is not ignored, each named once with its name and version: an ignored
\* package is never reported, nor one that got texts through a copy rule.
C12_ReportedAreUnlicensed ==
    [][Report
          => /\ \A i \in 1..Len(licenses) :
                   (\E k \in 1..Len(reported') : reported'[k] = NameVersion(licenses, i))
                       <=> /\ licenses[i].licenses = <<>>
                           /\ licenses[i].package.name \notin config.ignored_crates
             /\ \A k \in 1..Len(reported') :
                   \E i \in 1..Len(licenses) : reported'[k] = NameVersion(licenses, i)
             /\ NoRepeat(reported')]_vars

\* a run reported one package, left out an ignored package without texts and
\* one that was resolved to nothing but got texts through a copy rule
C12_Witness ==
    /\ phase = "done"
    /\ outcome = Ok
    /\ reported # <<>>
    /\ \E i, j \in Pkgs :
          /\ licenses[i].licenses = <<>>
          /\ packages[i].name \in config.ignored_crates
          /\ task[j].out = <<>>
          /\ licenses[j].licenses # <<>>
          /\ NameVersion(licenses, i) \notin {reported[k] : k \in 1..Len(reported)}

\* the entries without texts whose name is not ignored
Unresolved(lics) ==
    {i \in 1..Len(lics) :
        lics[i].licenses = <<>> /\ lics[i].package.name \notin config.ignored_crates}

\* C13: with an unresolved, non-ignored package a strict run ends in a failure
\* (the panic) and returns no result; a non-strict run returns the result with
\* every package, the unresolved ones with empty texts. With no such package
\* both modes return the same list, the one some order of the copy rules
\* gives for the resolved texts, in which the strictness has no part.
C13_StrictModeFails ==
    /\ [](phase = "done" /\ outcome = Ok
            => \E o \in Orders(DOMAIN config.license_copying_crates) :
                  licenses = ApplyInOrder(ResolvedLicenses, o).lics)
    /\ [][Report
             => IF Unresolved(licenses) # {} /\ config.panic_if_no_license_found
                THEN outcome'.kind = "panic" /\ licenses' = <<>>
                ELSE /\ outcome' = Ok
                     /\ licenses' = licenses
                     /\ Len(licenses') = Len(packages)
                     /\ \A i \in Pkgs : licenses'[i].package = packages[i]
                     /\ \A i \in Unresolved(licenses) :
                           NameVersion(licenses, i)
                               \in {reported'[k] : k \in 1..Len(reported')}]_vars

\* a strict run ended in the panic although one of its packages was resolved
C13_Witness ==
    /\ config.panic_if_no_license_found
    /\ phase = "done"
    /\ outcome.kind = "panic"
    /\ reported # <<>>
    /\ \E p \in Pkgs : task[p].out # <<>>

C15_UnrecognizedPageFails ==
    [][\A p \in Pkgs :
          (task[p].stage = "hosting" /\ RespondWith(p, <<>>))
              => /\ outcome'.tag = "NotGithubHomePage"
                 /\ phase' = "done"
                 /\ ~(task'[p].pc = "done" /\ task'[p].out = <<>>)]_vars

\* the packages of the entries of a result, in order
SelectedPackages == [i \in 1..Len(licenses) |-> licenses[i].package]

\* C16, as the spec states it: with resolution info the packages a run
\* resolves are exactly those reachable from the root, each once (cycles and
\* dangling ids notwithstanding); without it they are all packages in order.
C16_SelectedByGraphWalker ==
    Joined
        => IF resolve = None THEN SelectedPackages = packages
           ELSE /\ {SelectedPackages[i] : i \in 1..Len(licenses)}
                      = {packages[i] : i \in ReachableIds(resolve[1], {resolve[1].root})
                                                 \cap Pkgs}
                /\ NoRepeat(SelectedPackages)

\* C16, amended: the packages a run resolves are all packages of the metadata,
\* each once and in their original order, with and without resolution info;
\* the graph (root, edges, cycles, dangling ids) has no part in the selection.
C16_AllPackagesSelected ==
    Joined => SelectedPackages = packages

\* a run returned its result for a graph whose root is in a cycle with a
\* dangling edge and does not reach the other package
C16_Witness ==
    /\ phase = "done"
    /\ outcome = Ok
    /\ resolve # None
    /\ resolve[1].root = 1
    /\ resolve[1].nodes = (1 :> {1, DanglingId})
    /\ Len(licenses) = NumPackages

\* the entries named x with the most documents among the entries named x
MostDocuments(lics, x) ==
    {i \in EntriesNamed(lics, x) :
        \A j \in EntriesNamed(lics, x) : Len(lics[j].licenses) <= Len(lics[i].licenses)}

\* C17: when the copied-from name X of a rule Y<-X matches several entries,
\* the texts copied to Y are those of an entry of X with the maximum number
\* of documents among all entries named X.
C17_CopiesMostDocuments ==
    [][\A y \in DOMAIN config.license_copying_crates :
          CopyLicense(y)
              => \E d \in EntriesNamed(licenses, y) :
                    /\ licenses'[d].licenses
                          \in {licenses[i].licenses :
                                  i \in MostDocuments(licenses,
                                                      config.license_copying_crates[y])}
                    /\ \A e \in (1..Len(licenses)) \ {d} :
                          licenses'[e] = licenses[e]]_vars

\* of two versions of "a" the first has two documents and the second one, and
\* the rule b<-a has given "b" the two documents
C17_Witness ==
    /\ phase = "copying"
    /\ pending = {}
    /\ config.license_copying_crates = ("b" :> "a")
    /\ [i \in Pkgs |-> packages[i].name] = <<"a", "a", "b">>
    /\ Len(licenses[1].licenses) = 2
    /\ Len(licenses[2].licenses) = 1
    /\ task[3].out = <<>>
    /\ licenses[3].licenses = licenses[1].licenses

\* C18: get_license_text_from_url never returns the body of a 404 response as
\* a license document, however the server behaves over time: no future of a
\* run holds, and no package is resolved to, the text of a 404 page.
C18_NotFoundBodyNeverReturned ==
    \A p \in Pkgs :
        /\ \A i \in 1..Len(fetches[p]) :
              fetches[p][i].out # None => fetches[p][i].out[1].body # "notfound_page"
        /\ \A k \in 1..Len(task[p].out) : task[p].out[k].body # "notfound_page"

\* the URL a license text was fetched from
UrlOf(text) == Url(text.host, text.name, text.ver, text.file)

\* the place of URL u among the futures fs
PlaceOf(fs, u) == CHOOSE j \in 1..Len(fs) : fs[j].url = u

\* the license file the anchor a of a page of package p names is fetched by f
FetchedFor(p, a, f) ==
    IF task[p].stage = "hosting"
    THEN GithubRawUrl(packages[p].name, a) = Some(f.url)
    ELSE /\ IsLicenseName(a)
         /\ strip_prefix(a) = Some(f.url.file)

\* C19: the order of a package's documents is fixed by the input: the files
\* of a URL override are fetched in the order the URLs were configured, those
\* of a listing or hosting page in the order of the anchors on the page, and
\* the documents come in the order of their fetches, those that answered 404
\* left out, whatever the order in which the fetches complete.
C19_DocumentOrder ==
    /\ [][\A p \in Pkgs :
            StartUrlOverride(p)
                => [i \in 1..Len(fetches'[p]) |-> fetches'[p][i].url]
                       = config.license_url_overrides[packages[p].name]]_vars
    /\ [][\A p \in Pkgs, page \in HostingPages \cup ListingPages :
            RespondWith(p, page)
                => \E f \in [1..Len(fetches'[p]) -> 1..Len(page)] :
                      /\ \A k, l \in 1..Len(fetches'[p]) : k < l => f[k] < f[l]
                      /\ \A k \in 1..Len(fetches'[p]) :
                            FetchedFor(p, page[f[k]], fetches'[p][k])]_vars
    /\ [][\A p \in Pkgs :
            (fetches[p] # <<>> /\ fetches'[p] = <<>> /\ outcome' = Running)
                => LET docs == consulted'[p][Len(consulted'[p])].texts
                       fs == fetches[p]
                   IN /\ \A k \in 1..Len(docs) :
                            \E j \in 1..Len(fs) : fs[j].url = UrlOf(docs[k])
                      /\ \A k, l \in 1..Len(docs) :
                            k < l => PlaceOf(fs, UrlOf(docs[k]))
                                         < PlaceOf(fs, UrlOf(docs[l]))
                      /\ \A j \in 1..Len(fs) :
                            fs[j].pc = "done"
                                => (fs[j].out = None
                                      <=> \A k \in 1..Len(docs) :
                                              UrlOf(docs[k]) # fs[j].url)]_vars

\* of two license files fetched for a package the second has been read while
\* the first is still awaited
C19_Witness ==
    \E p \in Pkgs :
        /\ Len(fetches[p]) = 2
        /\ fetches[p][2].pc = "done"
        /\ fetches[p][2].out # None
        /\ fetches[p][1].pc = "get2"

\* C20: no permit of SEMAPHORE is leaked or held outside the fetch window: a
\* future holds one only between its acquire and the end of its request (on
\* success, 404, error and cancellation alike) and not while it parses or
\* waits for the files it fans out to, so the free permits are the bound less
\* the requests being made, and all of them when the run has ended.
C20_NoPermitLeaked ==
    /\ permits + Cardinality({p \in Pkgs : task[p].pc = "get"})
          + Cardinality({x \in {<<p, i>> : p \in Pkgs, i \in 1..MaxAnchors} :
                           /\ x[2] <= Len(fetches[x[1]])
                           /\ fetches[x[1]][x[2]].pc \in {"get1", "get2"}})
          = MaxGetReqs
    /\ OpenRequests = 0 => permits = MaxGetReqs
    /\ phase # "fetching" => permits = MaxGetReqs

\* a run was ended by an error after a license file of one package was
\* requested and while the listing of another was requested and not yet
\* answered; all permits are free again
C20_Witness ==
    /\ phase = "done"
    /\ outcome.kind = "err"
    /\ permits = MaxGetReqs
    /\ \E p \in Pkgs : "file" \in requested[p]
    /\ \E p \in Pkgs : requested[p] = {"exact"} /\ consulted[p] = <<>>

\* C21: the run cannot deadlock on the gate: no future waits for a permit
\* while it holds one, so while the fetching goes on and no permit is free a
\* request is being made, and with every request answered the run comes to
\* its end (a result, an error or the panic), for every bound from 1 on.
C21_RunEnds ==
    /\ [](phase = "fetching" /\ permits = 0 => OpenRequests > 0)
    /\ <>(phase = "done")

\* a run with a single permit fetched the two license files of a package and
\* came to its end with a result
C21_Witness ==
    /\ phase = "done"
    /\ outcome = Ok
    /\ permits = 1
    /\ \E p \in Pkgs : "file" \in requested[p] /\ Len(task[p].out) = 2

\* C22: applying one copy rule Y<-X writes the texts of exactly one entry, the
\* first entry in result order whose package name is Y, which gets the texts
\* of an entry named X; every other entry (further entries named Y of another
\* version among them), every package identity and the order of the entries
\* are left as they were.
C22_OnlyFirstCopierChanged ==
    [][\A y \in DOMAIN config.license_copying_crates :
          CopyLicense(y)
              => LET Y == EntriesNamed(licenses, y)
                     X == EntriesNamed(licenses, config.license_copying_crates[y])
                     d == CHOOSE i \in Y : \A j \in Y : i <= j
                 IN /\ Len(licenses') = Len(licenses)
                    /\ \A e \in 1..Len(licenses) :
                          /\ licenses'[e].package = licenses[e].package
                          /\ e # d => licenses'[e].licenses = licenses[e].licenses
                    /\ licenses'[d].licenses \in {licenses[i].licenses : i \in X}]_vars

\* of two versions of "b" the rule b<-a has given the first the texts of "a"
\* and left the second with its own
C22_Witness ==
    /\ phase = "copying"
    /\ pending = {}
    /\ config.license_copying_crates = ("b" :> "a")
    /\ [i \in Pkgs |-> packages[i].name] = <<"a", "b", "b">>
    /\ licenses[2].licenses = licenses[1].licenses
    /\ licenses[2].licenses # task[2].out
    /\ licenses[3].licenses = task[3].out
    /\ licenses[3].licenses # licenses[2].licenses
====
